---- MODULE Spec2Model ----
(***************************************************************************)
(* The proctored quiz-taking session of QuizDash: the React hook           *)
(* useQuizTaker (Frontend/hooks/useQuizTaker.ts), the browser it runs in   *)
(* (localStorage, the full-screen element, timers, requests in flight),    *)
(* and the attempt endpoints of the backend it talks to                    *)
(* (Backend/controllers/attemptController.js), for one (student, quiz).    *)
(*                                                                         *)
(* One step of the model is one task of the browser's event loop: an event *)
(* handler, a timer callback or the continuation of an await, followed by  *)
(* the renders and effects React runs for the state it changed.            *)
(***************************************************************************)
EXTENDS Integers, Sequences, FiniteSets, TLC

\* ------------------------------------------------------------------ bounds
\* quiz.durationMinutes * 60, cut down to a few seconds.
DurationSeconds == 2
\* Page loads (mounts of the hook) by the student's own browser.
MaxLoads == 2

\* -------------------------------------------------------------- the quiz
\* quiz.tabSwitchThreshold: the least value the quiz routes accept, and the
\* default of the quiz schema and of the quiz form.
MinThreshold == 0
DefaultThreshold == 3

\* null or undefined where an object is expected, where a timestamp is
\* expected, where an id is expected, and a key the answers object lacks.
Null == [null |-> TRUE]
NoTime == 0
NoId == ""
NoAnswer == -1

\* JavaScript values as grading meets them: a stored answer or a question's
\* correctness field is undefined, null, a number, an array of numbers or a
\* string (a sequence of one-character strings).
Undefined == [kind |-> "undefined"]
JsNull == [kind |-> "null"]
Num(n) == [kind |-> "number", value |-> n]
Arr(items) == [kind |-> "array", items |-> items]
Str(text) == [kind |-> "string", text |-> text]

\* a === b: arrays are equal only to themselves, and no operand here is the
\* same array as the other.
strictEquals(a, b) ==
    /\ a.kind = b.kind
    /\ CASE a.kind = "number" -> a.value = b.value
         [] a.kind = "string" -> a.text = b.text
         [] a.kind = "array" -> FALSE
         [] OTHER -> TRUE

\* quiz.questionIds, and the questions the question bank returns for them.
QuizQuestionIds == <<"q1", "q2">>
QIds == {QuizQuestionIds[i] : i \in 1..Len(QuizQuestionIds)}
Options == {0}

Question(id) ==
    IF id = "q1"
    THEN [id |-> "q1", type |-> "single-correct", correctAnswerIndex |-> Num(0), marks |-> 2]
    ELSE [id |-> "q2", type |-> "single-correct", correctAnswerIndex |-> Num(0), marks |-> 3]

RECURSIVE SumMarks(_)
SumMarks(qs) == IF qs = <<>> THEN 0 ELSE Head(qs).marks + SumMarks(Tail(qs))

\* quiz.totalMarks
TotalMarks == SumMarks([i \in 1..Len(QuizQuestionIds) |-> Question(QuizQuestionIds[i])])

\* The orders shuffleArray can return: every permutation of its input.
shuffleArray(seq) ==
    {p \in [1..Len(seq) -> {seq[i] : i \in 1..Len(seq)}] :
        \A i, j \in 1..Len(seq) : i # j => p[i] # p[j]}

Ids(qs) == [i \in 1..Len(qs) |-> qs[i].id]

\* Results of a request as the client sees it and as the server took it:
\* answered, never processed, or processed with the response lost.
Outcomes == {"ok", "failed", "lost"}

\* --------------------------------------------------------------- records
\* Object spread {...base, ...upd}: upd's fields win.
Merge(base, upd) ==
    [f \in DOMAIN base \cup DOMAIN upd |-> IF f \in DOMAIN upd THEN upd[f] ELSE base[f]]

\* `delete obj.field`
Without(obj, field) == [f \in DOMAIN obj \ {field} |-> obj[f]]

EmptyAnswers == [q \in QIds |-> NoAnswer]

\* ------------------------------------------------------------- variables
VARIABLES
    hook,       \* the hook's React state and refs
    ls,         \* this browser's localStorage: the progress and the backup slot
    rt,         \* what lives as long as the page: timers, requests in flight,
                \* the position of initializeQuiz, and what the page has done
    doc,        \* document.fullscreenElement is set
    remote,     \* the backend's attempt of (student, quiz), or Null
    other,      \* a second device of the same student running initializeQuiz
    loads,      \* page loads so far; also the clock Date.now() reads
    threshold,  \* quiz.tabSwitchThreshold
    backend,    \* the attempts collection as concurrent requests see it
    grading     \* an input of the grading functions, and their result

vars == <<hook, ls, rt, doc, remote, other, loads, threshold, backend, grading>>

Now == loads

\* useState initial values and useRef initial values.
InitialHook ==
    [questions            |-> <<>>,
     currentQuestionIndex |-> 0,
     answers              |-> EmptyAnswers,
     timeLeft             |-> DurationSeconds,
     tabSwitches          |-> 0,
     isFinished           |-> FALSE,
     isLoading            |-> TRUE,
     isReadyToStart       |-> FALSE,
     fullScreenExits      |-> 0,
     isWarningVisible     |-> FALSE,
     attemptRef           |-> Null,
     isFinishedRef        |-> FALSE,
     answersRef           |-> EmptyAnswers,
     isReadyRef           |-> FALSE]

StateFields ==
    {"questions", "currentQuestionIndex", "answers", "timeLeft", "tabSwitches",
     "isFinished", "isLoading", "isReadyToStart", "fullScreenExits", "isWarningVisible"}

StateOf(h) == [f \in StateFields |-> h[f]]

InitialRuntime ==
    [mounted        |-> TRUE,     \* QuizTaker is rendered by its parent
     init           |-> "lookup", \* where initializeQuiz stands
     saveTimers     |-> <<>>,     \* the pending timeouts of the save effect, in
                                  \* the order set: the tabSwitches each has
                                  \* captured and its age in seconds
     pendingSubmit  |-> Null,     \* the final record whose request is in flight
     finishTimer    |-> FALSE,    \* the 3 s timeout that calls onFinish
     submitCause    |-> "none",     \* which caller's submitQuiz passed the guard
     submitLog      |-> <<>>,     \* the effects of that invocation, in order
     submitRequests |-> 0,        \* requests carrying submitted = true
     submitResult   |-> "none",   \* how the await of that request ended
     createRequests |-> 0,        \* POST /attempts sent by initializeQuiz
     runSeconds     |-> 0,        \* seconds the countdown has run on end since
                                  \* the last backup request, up to SaveDelaySeconds
     onFinishCalls  |-> 0]

\* The operators below take and return the page's world [h, ls, rt].
World == [h |-> hook, ls |-> ls, rt |-> rt]

\* ------------------------------------------------------------ the backend
AttemptId == "att1"

\* saveAttempt with startTime left in the update of an existing attempt.
saveAttemptKeepingStartTime(existingAttempt, attemptData) ==
    IF existingAttempt # Null
    THEN Merge(existingAttempt, Without(attemptData, "id"))
    ELSE Merge(Merge([id |-> AttemptId, answers |-> EmptyAnswers, score |-> 0,
                      achievedMarks |-> 0, endTime |-> NoTime,
                      tabSwitches |-> 0, submitted |-> FALSE, questionIds |-> <<>>],
                     Without(attemptData, "id")),
               [startTime |-> IF "startTime" \in DOMAIN attemptData
                                 /\ attemptData.startTime # NoTime
                              THEN attemptData.startTime ELSE Now])

\* POST /api/attempts: the attempt of the pair after the request. An existing
\* attempt takes every field of the body but startTime; otherwise the body
\* becomes the attempt, with the schema's defaults and a server-side id.
saveAttempt(existingAttempt, attemptData) ==
    IF existingAttempt # Null
    THEN Merge(existingAttempt, Without(Without(attemptData, "startTime"), "id"))
    ELSE Merge(Merge([id |-> AttemptId, answers |-> EmptyAnswers, score |-> 0,
                      achievedMarks |-> 0, endTime |-> NoTime,
                      tabSwitches |-> 0, submitted |-> FALSE, questionIds |-> <<>>],
                     Without(attemptData, "id")),
               [startTime |-> IF "startTime" \in DOMAIN attemptData
                                 /\ attemptData.startTime # NoTime
                              THEN attemptData.startTime ELSE Now])

\* PUT /api/attempts/:id: the status of the response.
updateAttemptStatus(existingAttempt, id, updates) ==
    IF existingAttempt = Null \/ existingAttempt.id # id THEN 404
    ELSE IF existingAttempt.submitted
            /\ "submitted" \in DOMAIN updates /\ updates.submitted = FALSE THEN 400
    ELSE 200

\* PUT /api/attempts/:id: the attempt of the pair after the request.
updateAttempt(existingAttempt, id, updates) ==
    IF updateAttemptStatus(existingAttempt, id, updates) = 200
    THEN Merge(existingAttempt, Without(Without(updates, "startTime"), "id"))
    ELSE existingAttempt

\* ---------------------------------------------------------------- grading
\* The answers object as grading reads it: a question without an entry
\* reads as undefined.
jsAnswers(answers) ==
    [id \in DOMAIN answers |->
        IF answers[id] = NoAnswer THEN Undefined ELSE Num(answers[id])]

\* array.includes(val)
includes(array, val) == \E i \in 1..Len(array) : array[i] = val

\* String.prototype.trim, with " " the white space.
RECURSIVE trimStart(_)
trimStart(text) ==
    IF text # <<>> /\ Head(text) = " " THEN trimStart(Tail(text)) ELSE text

RECURSIVE trimEnd(_)
trimEnd(text) ==
    IF text # <<>> /\ text[Len(text)] = " "
    THEN trimEnd(SubSeq(text, 1, Len(text) - 1)) ELSE text

trim(text) == trimEnd(trimStart(text))

\* toLowerCase leaving every character as it is.
toLowerCaseKeepingCase(text) == text

\* String.prototype.toLowerCase on the letters of the alphabet used.
toLowerCase(text) ==
    [i \in 1..Len(text) |->
        CASE text[i] = "A" -> "a" [] text[i] = "B" -> "b" [] OTHER -> text[i]]

\* value?.trim().toLowerCase()
normalized(value) ==
    IF value.kind \in {"undefined", "null"} THEN Undefined
    ELSE Str(toLowerCase(trim(value.text)))

\* The switch of submitQuiz's grading loop.
isCorrect(q, studentAnswer) ==
    CASE q.type = "single-correct" ->
            strictEquals(studentAnswer, q.correctAnswerIndex)
      [] q.type = "multiple-correct" ->
            /\ studentAnswer.kind = "array" /\ q.correctAnswerIndices.kind = "array"
            /\ Len(studentAnswer.items) = Len(q.correctAnswerIndices.items)
            /\ \A i \in 1..Len(studentAnswer.items) :
                  includes(q.correctAnswerIndices.items, studentAnswer.items[i])
      [] q.type = "fill-in-the-blank" ->
            /\ studentAnswer.kind = "string"
            /\ strictEquals(Str(toLowerCase(trim(studentAnswer.text))),
                            normalized(q.correctAnswerText))
      [] OTHER -> FALSE

RECURSIVE achievedMarks(_, _)
achievedMarks(qs, answers) ==
    IF qs = <<>> THEN 0
    ELSE (IF isCorrect(Head(qs), answers[Head(qs).id]) THEN Head(qs).marks ELSE 0)
         + achievedMarks(Tail(qs), answers)

\* The (achieved, total) with total <= 200 whose percentage is an integer and
\* a half while the double (achieved / total) * 100 lies just below it: 23 / 40
\* is 0.575 rounded to a double, and times 100 that is 57.49999999999999.
DoubleBelowHalf ==
    {<<23, 40>>, <<46, 80>>, <<69, 120>>, <<92, 160>>,
     <<29, 200>>, <<57, 200>>, <<113, 200>>, <<115, 200>>}

\* The percentage rounded to the nearest integer, halves up.
roundedPercentage(achieved, total) == (200 * achieved + total) \div (2 * total)

\* total > 0 ? Math.round((achieved / total) * 100) : 0, for
\* 0 <= achieved <= total <= 200. Math.round takes halves up, and it is handed
\* the double.
score(achieved, total) ==
    IF total > 0
    THEN IF <<achieved, total>> \in DoubleBelowHalf
         THEN roundedPercentage(achieved, total) - 1
         ELSE roundedPercentage(achieved, total)
    ELSE 0

\* ------------------------------------------------------------- submitQuiz
\* The record submitQuiz builds from the attempt reference, the answers ref and
\* the tabSwitches of the render whose closure the caller holds.
buildFinalAttemptStaleCount(h, render) ==
    LET marks == achievedMarks(render.questions, jsAnswers(h.answersRef))
    IN Merge(h.attemptRef,
             [answers       |-> h.answersRef,
              score         |-> score(marks, TotalMarks),
              achievedMarks |-> marks,
              endTime       |-> Now,
              submitted     |-> TRUE])

buildFinalAttempt(h, render) ==
    LET marks == achievedMarks(render.questions, jsAnswers(h.answersRef))
    IN Merge(h.attemptRef,
             [answers       |-> h.answersRef,
              score         |-> score(marks, TotalMarks),
              achievedMarks |-> marks,
              endTime       |-> Now,
              tabSwitches   |-> render.tabSwitches,
              submitted     |-> TRUE])

\* submitQuiz past its guard, up to its await: the request to leave full
\* screen when in full screen, the ref and the state set, the record built
\* and its request sent.
submitPassed(w, render, cause) ==
    [w EXCEPT
        !.h.isFinishedRef = TRUE,
        !.h.isFinished = TRUE,
        !.rt.pendingSubmit = buildFinalAttempt(w.h, render),
        !.rt.submitCause = cause,
        !.rt.submitRequests = @ + 1,
        !.rt.submitLog =
            (IF doc THEN <<"exitFullscreen">> ELSE <<>>) \o <<"markFinished", "request">>]

\* The guard reads the ref; here only the state is set, and the ref follows
\* with the next render.
submitQuizRefUnmarked(w, render, cause) ==
    IF w.h.attemptRef = Null \/ w.h.isFinishedRef THEN w
    ELSE [submitPassed(w, render, cause) EXCEPT !.h.isFinishedRef = FALSE]

\* The session is marked finished only after the await.
submitQuizMarkAfterAwait(w, render, cause) ==
    IF w.h.attemptRef = Null \/ w.h.isFinishedRef THEN w
    ELSE [submitPassed(w, render, cause) EXCEPT
             !.h.isFinishedRef = FALSE,
             !.h.isFinished = w.h.isFinished,
             !.rt.submitLog =
                 (IF doc THEN <<"exitFullscreen">> ELSE <<>>) \o <<"request", "markFinished">>]

\* submitQuiz up to its await. `render` is the render whose closure the
\* caller holds, `cause` names the caller.
submitQuiz(w, render, cause) ==
    IF w.h.attemptRef = Null \/ w.h.isFinishedRef THEN w
    ELSE submitPassed(w, render, cause)

\* ---------------------------------------------------------------- effects
\* useEffect(() => { ref.current = state }, [state]) for the three refs.
syncRefs(prev, render, w) ==
    [w EXCEPT
        !.h.isFinishedRef = IF prev.isFinished # render.isFinished
                            THEN render.isFinished ELSE @,
        !.h.answersRef = IF prev.answers # render.answers THEN render.answers ELSE @,
        !.h.isReadyRef = IF prev.isReadyToStart # render.isReadyToStart
                         THEN render.isReadyToStart ELSE @]

\* The tab-switch rule with > for >=.
autoSubmitEffectAboveThreshold(render, w) ==
    IF render.isLoading \/ render.isFinished THEN w
    ELSE IF render.tabSwitches > threshold THEN submitQuiz(w, render, "tabSwitch")
    ELSE IF render.fullScreenExits = 1 THEN [w EXCEPT !.h.isWarningVisible = TRUE]
    ELSE IF render.fullScreenExits > 1 THEN submitQuiz(w, render, "fullScreenExit")
    ELSE w

\* The body of the auto-submission effect, run for `render`.
autoSubmitEffect(render, w) ==
    IF render.isLoading \/ render.isFinished THEN w
    ELSE IF render.tabSwitches >= threshold THEN submitQuiz(w, render, "tabSwitch")
    ELSE IF render.fullScreenExits = 1 THEN [w EXCEPT !.h.isWarningVisible = TRUE]
    ELSE IF render.fullScreenExits > 1 THEN submitQuiz(w, render, "fullScreenExit")
    ELSE w

\* Its dependencies: submitQuiz is a new function when questions or
\* tabSwitches change; the props are the same in every render.
autoSubmitDeps == {"tabSwitches", "fullScreenExits", "isLoading", "isFinished", "questions"}

\* JSON.parse(JSON.stringify(progress)): every value of the snapshot is a
\* number, a string, null, or an array or object of these, and a question
\* without an answer is a key the answers object does not have.
jsonRoundTrip(progress) == [f \in DOMAIN progress |-> progress[f]]

\* The save effect returning no cleanup.
saveProgressCleanupMissing(w) == w

\* The cleanup of the save effect: clearTimeout of the timeout its last run
\* has set.
saveProgressCleanup(w) ==
    [w EXCEPT !.rt.saveTimers = IF @ = <<>> THEN @ ELSE SubSeq(@, 1, Len(@) - 1)]

\* The body of the save effect, run for `render`, after the cleanup of its
\* previous run.
saveProgressEffect(render, w) ==
    LET cleaned == saveProgressCleanup(w)
    IN IF ~render.isFinished /\ ~render.isLoading /\ Len(render.questions) > 0
          /\ w.h.attemptRef # Null
       THEN [cleaned EXCEPT
                !.ls.progress =
                    [questions       |-> render.questions,
                     answers         |-> render.answers,
                     timeLeft        |-> render.timeLeft,
                     tabSwitches     |-> render.tabSwitches,
                     fullScreenExits |-> render.fullScreenExits,
                     attempt         |-> w.h.attemptRef],
                !.rt.saveTimers =
                    Append(@, [tabSwitches |-> render.tabSwitches, age |-> 0])]
       ELSE cleaned

\* The dependency list without timeLeft.
saveProgressDepsWithoutTimeLeft ==
    {"answers", "tabSwitches", "isFinished", "isLoading", "questions", "fullScreenExits"}

saveProgressDeps ==
    {"answers", "timeLeft", "tabSwitches", "isFinished", "isLoading", "questions",
     "fullScreenExits"}

changed(prev, render, deps) == \E f \in deps : prev[f] # render[f]

\* The effects of one commit, in the order the hook declares them: `prev` is
\* the render committed before, w.h holds the render being committed.
runEffects(prev, w) ==
    LET render == w.h
        w1 == syncRefs(prev, render, w)
        w2 == IF changed(prev, render, autoSubmitDeps) THEN autoSubmitEffect(render, w1) ELSE w1
        w3 == IF changed(prev, render, saveProgressDeps) THEN saveProgressEffect(render, w2) ELSE w2
    IN w3

\* A handler has changed w.h from `prev`: render and run the effects, and
\* once more for the state the effects set (setIsFinished, setWarningVisible).
commit(prev, w) ==
    LET w1 == runEffects(prev, w)
    IN IF StateOf(w1.h) = StateOf(w.h) THEN w1 ELSE runEffects(w.h, w1)

\* The effects' cleanup when React unmounts QuizTaker. The timeout that calls
\* onFinish has no cleanup.
unmount(w) == [saveProgressCleanup(w) EXCEPT !.rt.mounted = FALSE]

\* What QuizTaker renders.
showsStart(h) == ~h.isFinished /\ ~h.isLoading /\ ~h.isReadyToStart
showsQuiz(h) == ~h.isFinished /\ ~h.isLoading /\ h.isReadyToStart

\* The interval kept alive under the warning overlay.
tickingWhileWarned(h) == ~h.isLoading /\ ~h.isFinished /\ h.isReadyToStart

\* The interval of the timer effect and the document listeners exist.
ticking(h) == ~h.isLoading /\ ~h.isFinished /\ h.isReadyToStart /\ ~h.isWarningVisible

listening(h) == ~h.isLoading /\ ~h.isFinished

\* The handler's step; a countdown that does not run after it is no longer
\* running on end.
Apply(w) ==
    /\ hook' = w.h
    /\ ls' = w.ls
    /\ rt' = [w.rt EXCEPT !.runSeconds = IF ticking(w.h) THEN @ ELSE 0]

\* Cap on each integrity counter of a session whose submitQuiz is a no-op.
MaxEvents == 4

\* The delay of the save effect's timeout in seconds (30 in the code), cut
\* down with the duration; it stays above the 1 s of the interval.
SaveDelaySeconds == 2

\* ----------------------------------------------------------------- Init
\* No grading input: the grading functions are run by submitQuiz only.
NoGrading == [kind |-> "none"]

MaxCallers == 2               \* bound: clients whose requests run concurrently
MaxRequests == 3              \* bound: requests the backend serves in all

Callers == 1..MaxCallers

\* The attempts collection restricted to one (student, quiz) pair, and
\* per client the request of it that is between its reads and its write, and
\* the last request served with its status.
InitialBackend ==
    [attempts |-> {},
     calls    |-> [c \in Callers |-> Null],
     replies  |-> [c \in Callers |-> Null],
     served   |-> 0]

Init ==
    /\ hook = InitialHook
    /\ ls = [progress |-> Null, backup |-> Null]
    /\ rt = InitialRuntime
    /\ doc = FALSE
    /\ remote = Null
    /\ other = "idle"
    /\ loads = 1
    /\ threshold \in MinThreshold..DefaultThreshold
    /\ backend = InitialBackend
    /\ grading = NoGrading

\* The catch block of initializeQuiz.
initFailed(w) ==
    commit(w.h, [w EXCEPT !.h.isLoading = FALSE, !.rt.init = "failed"])

\* The body of the request initializeQuiz creates the attempt with.
newAttemptRequest(shuffledQuestions) ==
    [answers       |-> EmptyAnswers,
     score         |-> 0,
     achievedMarks |-> 0,
     startTime     |-> Now,
     endTime       |-> NoTime,
     tabSwitches   |-> 0,
     submitted     |-> FALSE,
     questionIds   |-> Ids(shuffledQuestions)]

\* The resume branch without the full-screen-exit count.
restoreProgressWithoutExits(h, savedProgress) ==
    [h EXCEPT
        !.questions = savedProgress.questions,
        !.answers = savedProgress.answers,
        !.timeLeft = savedProgress.timeLeft,
        !.tabSwitches = savedProgress.tabSwitches,
        !.attemptRef = savedProgress.attempt]

\* The resume branch of initializeQuiz: the hook after its setters and the
\* assignment to attemptRef. `savedProgress.fullScreenExits || 0` is the
\* count itself, 0 included.
restoreProgress(h, savedProgress) ==
    [h EXCEPT
        !.questions = savedProgress.questions,
        !.answers = savedProgress.answers,
        !.timeLeft = savedProgress.timeLeft,
        !.tabSwitches = savedProgress.tabSwitches,
        !.fullScreenExits = savedProgress.fullScreenExits,
        !.attemptRef = savedProgress.attempt]

\* The submitted branch falling through to the question fetch.
foundSubmittedNoReturn(w) ==
    [w EXCEPT
        !.h.isFinished = TRUE,
        !.h.isFinishedRef = TRUE,
        !.rt.onFinishCalls = @ + 1,
        !.rt.init = "fetch"]

\* The submitted branch of initializeQuiz: the session is marked finished,
\* onFinish runs (the parent takes QuizTaker down) and initializeQuiz returns.
foundSubmitted(w) ==
    unmount([w EXCEPT
        !.h.isFinished = TRUE,
        !.h.isFinishedRef = TRUE,
        !.h.isLoading = FALSE,
        !.rt.onFinishCalls = @ + 1,
        !.rt.init = "finished"])

\* initializeQuiz from its start to its second await: the attempt lookup,
\* then either the submitted branch, the resume from the progress slot, or
\* the start of the question fetch.
InitLookup ==
    /\ rt.mounted /\ rt.init = "lookup"
    /\ \E answered \in BOOLEAN :
        LET w == World
            savedProgress == jsonRoundTrip(ls.progress)
        IN Apply(
            IF ~answered THEN initFailed(w)
            ELSE IF remote # Null /\ remote.submitted
            THEN foundSubmitted(w)
            ELSE IF ls.progress # Null
            THEN commit(w.h, [w EXCEPT
                     !.h = [restoreProgress(@, savedProgress) EXCEPT !.isLoading = FALSE],
                     !.rt.init = "done"])
            ELSE [w EXCEPT !.rt.init = "fetch"])
    /\ UNCHANGED <<doc, remote, other, loads, threshold, backend, grading>>

\* The question fetch returns (or throws), the questions are shuffled and
\* set, and the create request is sent.
InitFetchQuestions ==
    /\ rt.mounted /\ rt.init = "fetch"
    /\ \E fetched \in BOOLEAN, order \in shuffleArray(QuizQuestionIds) :
        LET w == World
            shuffledQuestions == [i \in 1..Len(order) |-> Question(order[i])]
        IN Apply(
            IF ~fetched THEN initFailed(w)
            ELSE commit(w.h, [w EXCEPT
                     !.h.questions = shuffledQuestions,
                     !.rt.createRequests = @ + 1,
                     !.rt.init = "create"]))
    /\ UNCHANGED <<doc, remote, other, loads, threshold, backend, grading>>

\* The create request is processed (or not) and initializeQuiz continues
\* with the response (or in its catch block).
InitCreateAttempt ==
    /\ rt.mounted /\ rt.init = "create"
    /\ \E outcome \in Outcomes :
        LET w == World
            stored == saveAttempt(remote, newAttemptRequest(hook.questions))
        IN /\ remote' = IF outcome = "failed" THEN remote ELSE stored
           /\ Apply(
                IF outcome # "ok" THEN initFailed(w)
                ELSE commit(w.h, [w EXCEPT
                         !.h.attemptRef = stored,
                         !.h.isLoading = FALSE,
                         !.rt.init = "done"]))
    /\ UNCHANGED <<doc, other, loads, threshold, backend, grading>>

\* ------------------------------------------------------ document events
\* requestFullscreen from startQuiz or reEnterFullScreen succeeded: the
\* fullscreenchange event with the element set. QuizTaker reads
\* currentQuestion.marks once ready, which throws without a question and
\* takes the component down.
FullscreenEntered ==
    /\ rt.mounted /\ ~doc
    /\ showsStart(hook) \/ (showsQuiz(hook) /\ hook.isWarningVisible)
    /\ doc' = TRUE
    /\ LET w == World
           entered == [w EXCEPT !.h.isReadyToStart = TRUE, !.h.isWarningVisible = FALSE]
       IN Apply(IF Len(hook.questions) = 0 THEN unmount(w) ELSE commit(w.h, entered))
    /\ UNCHANGED <<remote, other, loads, threshold, backend, grading>>

\* The fullscreenchange event with no element: the student left full screen,
\* or the exit submitQuiz requested took place.
FullscreenExited ==
    /\ doc
    /\ doc' = FALSE
    /\ LET w == World
       IN Apply(
            IF rt.mounted /\ listening(hook) /\ hook.isReadyRef /\ ~hook.isFinishedRef
               /\ hook.fullScreenExits < MaxEvents
            THEN commit(w.h, [w EXCEPT !.h.fullScreenExits = @ + 1])
            ELSE w)
    /\ UNCHANGED <<remote, other, loads, threshold, backend, grading>>

\* The visibilitychange event, with document.hidden as given.
VisibilityChange ==
    /\ rt.mounted /\ listening(hook)
    /\ hook.tabSwitches < MaxEvents
    /\ \E hidden \in BOOLEAN :
        LET w == World
        IN Apply(
            IF hidden /\ hook.isReadyRef
            THEN commit(w.h, [w EXCEPT !.h.tabSwitches = @ + 1])
            ELSE w)
    /\ UNCHANGED <<doc, remote, other, loads, threshold, backend, grading>>

\* The pending timeouts one second later.
aged(timers) ==
    [i \in 1..Len(timers) |->
        [timers[i] EXCEPT !.age = IF @ < SaveDelaySeconds THEN @ + 1 ELSE @]]

\* One run of the interval's callback, a second after the last one or after
\* the interval was set.
TimerTick ==
    /\ rt.mounted /\ ticking(hook)
    /\ LET w == [World EXCEPT
                    !.rt.runSeconds = IF @ < SaveDelaySeconds THEN @ + 1 ELSE @,
                    !.rt.saveTimers = aged(@)]
           ticked == IF hook.timeLeft <= 1
                     THEN commit(w.h, [submitQuiz(w, hook, "timer") EXCEPT !.h.timeLeft = 0])
                     ELSE commit(w.h, [w EXCEPT !.h.timeLeft = @ - 1])
       IN hook' = ticked.h /\ ls' = ticked.ls /\ rt' = ticked.rt
    /\ UNCHANGED <<doc, remote, other, loads, threshold, backend, grading>>

\* ------------------------------------------------------------- intents
\* The quiz view takes input: it is rendered and no warning modal covers it.
takesInput == rt.mounted /\ showsQuiz(hook) /\ ~hook.isWarningVisible

\* Number.prototype.toString of an index: its decimal digits.
RECURSIVE toString(_)
toString(n) == IF n < 10 THEN <<n>> ELSE Append(toString(n \div 10), n % 10)

\* a < b for strings of digits: by code unit, a proper prefix first.
RECURSIVE stringLess(_, _)
stringLess(a, b) ==
    IF b = <<>> THEN FALSE
    ELSE IF a = <<>> THEN TRUE
    ELSE IF Head(a) # Head(b) THEN Head(a) < Head(b)
    ELSE stringLess(Tail(a), Tail(b))

\* array.filter(a => a !== value)
RECURSIVE filter(_, _)
filter(array, value) ==
    IF array = <<>> THEN <<>>
    ELSE IF Head(array) # value
         THEN <<Head(array)>> \o filter(Tail(array), value)
         ELSE filter(Tail(array), value)

\* array.sort() with no comparator: the elements in the order of their
\* string conversions. The arrays sorted here hold no element twice.
RECURSIVE sort(_)
sort(array) ==
    IF array = <<>> THEN <<>>
    ELSE LET first == CHOOSE i \in 1..Len(array) :
                         \A j \in 1..Len(array) :
                            ~stringLess(toString(array[j]), toString(array[i]))
         IN <<array[first]>> \o sort(filter(array, array[first]))

\* handleAnswerSelect's state update. The stored answer of a
\* multiple-correct question is an array value or undefined, and `value` an
\* option index; for the other types the value is stored as given.
handleAnswerSelect(answers, questionId, value, type) ==
    IF type = "multiple-correct"
    THEN LET prev == answers[questionId]
             currentAnswers == IF prev.kind = "array" THEN prev.items ELSE <<>>
             newAnswers == IF includes(currentAnswers, value)
                           THEN filter(currentAnswers, value)
                           ELSE sort(Append(currentAnswers, value))
         IN [answers EXCEPT ![questionId] = Arr(newAnswers)]
    ELSE [answers EXCEPT ![questionId] = value]

\* The student picks an option of the question on display.
AnswerSelect ==
    /\ takesInput
    /\ \E value \in Options :
        LET w == World
            q == hook.questions[hook.currentQuestionIndex + 1]
        IN Apply(commit(w.h,
               [w EXCEPT !.h.answers = handleAnswerSelect(@, q.id, value, q.type)]))
    /\ UNCHANGED <<doc, remote, other, loads, threshold, backend, grading>>

\* Next going round to the first question after the last.
goToNextQuestionWrapping(h) ==
    [h EXCEPT !.currentQuestionIndex = (@ + 1) % Len(h.questions)]

goToNextQuestion(h) ==
    IF h.currentQuestionIndex < Len(h.questions) - 1
    THEN [h EXCEPT !.currentQuestionIndex = @ + 1] ELSE h

goToPreviousQuestion(h) ==
    IF h.currentQuestionIndex > 0
    THEN [h EXCEPT !.currentQuestionIndex = @ - 1] ELSE h

GoToNextQuestion ==
    /\ takesInput
    /\ Apply(commit(hook, [World EXCEPT !.h = goToNextQuestion(@)]))
    /\ UNCHANGED <<doc, remote, other, loads, threshold, backend, grading>>

GoToPreviousQuestion ==
    /\ takesInput
    /\ Apply(commit(hook, [World EXCEPT !.h = goToPreviousQuestion(@)]))
    /\ UNCHANGED <<doc, remote, other, loads, threshold, backend, grading>>

\* "Yes, Submit" on the last question; twice = a second click that reaches
\* the handler before the page has rendered again.
SubmitIntent ==
    /\ takesInput
    /\ hook.currentQuestionIndex = Len(hook.questions) - 1
    /\ \E twice \in BOOLEAN :
        LET w == World
            once == submitQuiz(w, hook, "manual")
        IN Apply(commit(w.h, IF twice THEN submitQuiz(once, hook, "manual") ELSE once))
    /\ UNCHANGED <<doc, remote, other, loads, threshold, backend, grading>>

\* --------------------------------------------------- requests and timers
\* The request submitQuiz sends for a final record: PUT when the attempt has
\* an id, POST otherwise. The attempt of the pair after the backend took it.
submitRequest(existingAttempt, finalAttempt) ==
    IF finalAttempt.id # NoId
    THEN updateAttempt(existingAttempt, finalAttempt.id, finalAttempt)
    ELSE saveAttempt(existingAttempt, finalAttempt)

\* The client's apiUpdateAttempt / apiSaveAttempt resolves.
submitAccepted(existingAttempt, finalAttempt) ==
    finalAttempt.id = NoId
    \/ updateAttemptStatus(existingAttempt, finalAttempt.id, finalAttempt) = 200

\* The catch block sending the request once more instead of writing the
\* backup slot.
submitSettledRetrying(w, resolved) ==
    IF resolved
    THEN [w EXCEPT !.ls.progress = Null, !.rt.submitResult = "resolved",
                   !.rt.pendingSubmit = Null, !.rt.finishTimer = TRUE]
    ELSE [w EXCEPT !.rt.submitResult = "rejected", !.rt.submitRequests = @ + 1]

\* The timeout for onFinish set inside the try block only.
submitSettledCallbackInTry(w, resolved) ==
    IF resolved
    THEN [w EXCEPT !.ls.progress = Null, !.rt.submitResult = "resolved",
                   !.rt.pendingSubmit = Null, !.rt.finishTimer = TRUE]
    ELSE [w EXCEPT !.ls.backup = w.rt.pendingSubmit, !.rt.submitResult = "rejected",
                   !.rt.pendingSubmit = Null]

\* submitQuiz after its await: the try block's second statement or the catch
\* block, then the timeout for onFinish.
submitSettled(w, resolved) ==
    LET finalAttempt == w.rt.pendingSubmit
        stored == IF resolved
                  THEN [w EXCEPT !.ls.progress = Null, !.rt.submitResult = "resolved"]
                  ELSE [w EXCEPT !.ls.backup = finalAttempt, !.rt.submitResult = "rejected"]
    IN [stored EXCEPT !.rt.pendingSubmit = Null, !.rt.finishTimer = TRUE]

SubmitSettle ==
    /\ rt.pendingSubmit # Null
    /\ \E outcome \in Outcomes :
        /\ remote' = IF outcome = "failed" THEN remote
                     ELSE submitRequest(remote, rt.pendingSubmit)
        /\ Apply(submitSettled(World,
                    outcome = "ok" /\ submitAccepted(remote, rt.pendingSubmit)))
    /\ UNCHANGED <<doc, other, loads, threshold, backend, grading>>

\* The 3 s timeout of submitQuiz: onFinish, and the parent drops QuizTaker.
OnFinishTimeout ==
    /\ rt.finishTimer
    /\ Apply(unmount([World EXCEPT !.rt.finishTimer = FALSE, !.rt.onFinishCalls = @ + 1]))
    /\ UNCHANGED <<doc, remote, other, loads, threshold, backend, grading>>

\* The body of the request the save effect's timeout sends.
backupRequest(h, timer) ==
    [answers |-> h.answersRef, tabSwitches |-> timer.tabSwitches, endTime |-> Now]

\* A second passes in which no interval exists.
SecondElapses ==
    /\ rt.mounted /\ ~ticking(hook)
    /\ rt.saveTimers # <<>>
    /\ \A i \in 1..Len(rt.saveTimers) : rt.saveTimers[i].age < SaveDelaySeconds
    /\ rt' = [rt EXCEPT !.saveTimers = aged(@)]
    /\ UNCHANGED <<hook, ls, doc, remote, other, loads, threshold, backend, grading>>

\* A timeout of the save effect has reached its delay and its callback runs.
BackupFire ==
    /\ rt.mounted
    /\ \E i \in 1..Len(rt.saveTimers), outcome \in Outcomes :
        /\ rt.saveTimers[i].age >= SaveDelaySeconds
        /\ remote' = IF outcome # "failed" /\ hook.attemptRef # Null
                        /\ hook.attemptRef.id # NoId
                     THEN updateAttempt(remote, hook.attemptRef.id,
                                        backupRequest(hook, rt.saveTimers[i]))
                     ELSE remote
        /\ rt' = [rt EXCEPT
                    !.saveTimers = [j \in 1..(Len(@) - 1) |->
                                       IF j < i THEN @[j] ELSE @[j + 1]],
                    !.runSeconds = 0]
    /\ UNCHANGED <<hook, ls, doc, other, loads, threshold, backend, grading>>

\* The student reloads the page, or closes it and opens the quiz again: the
\* hook mounts anew, localStorage stays, and a submission still in flight
\* reaches the backend or does not.
Reload ==
    /\ loads < MaxLoads
    /\ loads' = loads + 1
    /\ hook' = InitialHook
    /\ rt' = InitialRuntime
    /\ doc' = FALSE
    /\ \E landed \in BOOLEAN :
        remote' = IF landed /\ rt.pendingSubmit # Null
                  THEN submitRequest(remote, rt.pendingSubmit)
                  ELSE remote
    /\ UNCHANGED <<ls, other, threshold, backend, grading>>

\* ------------------------------------------------------ a second device
\* The same student opens the quiz on a device whose localStorage has no
\* progress slot: initializeQuiz's lookup there ...
OtherLookup ==
    /\ other = "idle"
    /\ other' = IF remote # Null /\ remote.submitted THEN "finished" ELSE "create"
    /\ UNCHANGED <<hook, ls, rt, doc, remote, loads, threshold, backend, grading>>

\* ... and its create request, with that device's own shuffle.
OtherCreate ==
    /\ other = "create"
    /\ other' = "done"
    /\ \E order \in shuffleArray(QuizQuestionIds) :
        remote' = saveAttempt(remote,
                     newAttemptRequest([i \in 1..Len(order) |-> Question(order[i])]))
    /\ UNCHANGED <<hook, ls, rt, doc, loads, threshold, backend, grading>>

\* ------------------------------------------------------------------ Next
Next ==
    \/ InitLookup
    \/ InitFetchQuestions
    \/ InitCreateAttempt
    \/ FullscreenEntered
    \/ FullscreenExited
    \/ VisibilityChange
    \/ TimerTick
    \/ AnswerSelect
    \/ GoToNextQuestion
    \/ GoToPreviousQuestion
    \/ SubmitIntent
    \/ SubmitSettle
    \/ OnFinishTimeout
    \/ SecondElapses
    \/ BackupFire
    \/ Reload

Spec == Init /\ [][Next]_vars

\* The same with the second device.
NextDevices ==
    \/ Next
    \/ OtherLookup
    \/ OtherCreate

SpecDevices == Init /\ [][NextDevices]_vars

\* --------------------------------------------------------------- fairness
\* The browser runs the callback of an interval that exists, settles a
\* request that is in flight and runs a timeout that is pending: each of the
\* three steps, once it can be taken and stays so, is taken. Nothing makes
\* the student act.
Fairness ==
    /\ WF_vars(TimerTick)
    /\ WF_vars(SubmitSettle)
    /\ WF_vars(OnFinishTimeout)

\* One load of the page: the student does not reload it, and the steps that
\* touch neither the interval nor the triggers of submitQuiz (the selection
\* of an answer, the timeout of the backup) are left out.
NextLive ==
    \/ InitLookup
    \/ InitFetchQuestions
    \/ InitCreateAttempt
    \/ FullscreenEntered
    \/ FullscreenExited
    \/ VisibilityChange
    \/ TimerTick
    \/ GoToNextQuestion
    \/ GoToPreviousQuestion
    \/ SubmitIntent
    \/ SubmitSettle
    \/ OnFinishTimeout

SpecLive == Init /\ [][NextLive]_vars /\ Fairness

\* ------------------------------------- events racing the effects' cleanup
\* submitQuiz has marked the session Finished and its request is in flight.
\* The listeners and the interval belong to passive effects: React removes
\* them in the cleanups of the re-render that setIsFinished(true) queues, and
\* an event or an interval callback the browser delivers before that re-render
\* still runs the handler of the previous render.
beforeCleanup(h, r) ==
    r.mounted /\ h.isFinished /\ ~h.isLoading /\ r.pendingSubmit # Null

\* handleVisibilityChange reads document.hidden and isReadyRef only.
StaleVisibilityChange ==
    /\ beforeCleanup(hook, rt)
    /\ hook.tabSwitches < MaxEvents
    /\ LET w == World
       IN Apply(IF hook.isReadyRef
                THEN commit(w.h, [w EXCEPT !.h.tabSwitches = @ + 1])
                ELSE w)
    /\ UNCHANGED <<doc, remote, other, loads, threshold, backend, grading>>

\* The interval's callback: the updater counts down, and at 1 or below it
\* calls submitQuiz, which the ref now turns away. A submission by the last
\* tick has cleared the interval itself.
StaleTimerTick ==
    /\ beforeCleanup(hook, rt)
    /\ hook.isReadyToStart /\ ~hook.isWarningVisible
    /\ rt.submitCause # "timer"
    /\ hook.timeLeft > 0
    /\ LET w == World
       IN Apply(
            IF hook.timeLeft <= 1
            THEN commit(w.h, [submitQuiz(w, hook, "timer") EXCEPT !.h.timeLeft = 0])
            ELSE commit(w.h, [w EXCEPT !.h.timeLeft = @ - 1]))
    /\ UNCHANGED <<doc, remote, other, loads, threshold, backend, grading>>

NextEvents ==
    \/ Next
    \/ StaleVisibilityChange
    \/ StaleTimerTick

SpecEvents == Init /\ [][NextEvents]_vars

\* ------------------------------------------------ concurrent requests
\* The backend serving requests of several clients for one (student, quiz)
\* pair. saveAttempt reads (findOne) and writes (findByIdAndUpdate or save)
\* in separate steps, so the requests interleave between the two.

\* The _id MongoDB gives a document inserted for client c's request.
AttemptIdOf(c) ==
    CASE c = 1 -> "att1" [] c = 2 -> "att2" [] c = 3 -> "att3" [] OTHER -> "att4"

\* Request bodies: with or without a startTime, submitted or not.
RequestBodies ==
    {Merge(newAttemptRequest([i \in 1..Len(QuizQuestionIds) |-> Question(QuizQuestionIds[i])]),
           [startTime |-> t, submitted |-> s]) :
        t \in {NoTime, 5, 6}, s \in BOOLEAN}

\* newAttempt.save() with no unique index on the collection.
insertAttemptNoIndex(attempts, attempt) == attempts \cup {attempt}

\* newAttempt.save(): the unique index on {quizId, studentId} rejects the
\* document when the pair has one already (E11000).
insertAttempt(attempts, attempt) ==
    IF attempts # {} THEN attempts ELSE attempts \cup {attempt}

\* saveAttempt up to the result of findOne.
SaveAttemptFind(c) ==
    /\ backend.calls[c] = Null /\ backend.served < MaxRequests
    /\ \E attemptData \in RequestBodies,
          existingAttempt \in (IF backend.attempts = {} THEN {Null} ELSE backend.attempts) :
        backend' = [backend EXCEPT
            !.calls[c] = [attemptData |-> attemptData, existingAttempt |-> existingAttempt],
            !.served = @ + 1]
    /\ UNCHANGED <<hook, ls, rt, doc, remote, other, loads, threshold, grading>>

\* saveAttempt from there: the update of the attempt found, or the insert.
SaveAttemptWrite(c) ==
    /\ backend.calls[c] # Null
    /\ LET call == backend.calls[c]
           created == Merge(saveAttempt(Null, call.attemptData), [id |-> AttemptIdOf(c)])
       IN backend' = [backend EXCEPT
            !.calls[c] = Null,
            !.attempts =
                IF call.existingAttempt # Null
                THEN {IF d.id = call.existingAttempt.id
                      THEN saveAttempt(d, call.attemptData) ELSE d : d \in @}
                ELSE insertAttempt(@, created),
            !.replies[c] =
                [startTime |-> call.attemptData.startTime,
                 status |-> IF call.existingAttempt # Null THEN 200
                            ELSE IF created \in insertAttempt(backend.attempts, created)
                                 THEN 201 ELSE 500]]
    /\ UNCHANGED <<hook, ls, rt, doc, remote, other, loads, threshold, grading>>

\* updateAttempt, for any id a client may hold.
UpdateAttemptPut(c) ==
    /\ backend.calls[c] = Null /\ backend.served < MaxRequests
    /\ \E id \in {AttemptIdOf(k) : k \in Callers}, updates \in RequestBodies :
        backend' = [backend EXCEPT
            !.attempts = {updateAttempt(d, id, updates) : d \in @},
            !.served = @ + 1,
            !.replies[c] =
                [startTime |-> updates.startTime,
                 status |-> IF \E d \in backend.attempts : d.id = id
                            THEN updateAttemptStatus(
                                    CHOOSE d \in backend.attempts : d.id = id, id, updates)
                            ELSE 404]]
    /\ UNCHANGED <<hook, ls, rt, doc, remote, other, loads, threshold, grading>>

NextStore ==
    \E c \in Callers :
        \/ SaveAttemptFind(c)
        \/ SaveAttemptWrite(c)
        \/ UpdateAttemptPut(c)

InitStore == Init /\ threshold = DefaultThreshold

SpecStore == InitStore /\ [][NextStore]_vars

\* ------------------------------------------------ the grading functions
\* The grading loop and the score of submitQuiz as functions of their
\* inputs: a state holds one input, and the step from it the result.
MaxIndex == 1                 \* bound: option indices are 0..MaxIndex
MaxList == 2                  \* bound: length of an index list
MaxText == 2                  \* bound: length of a text
MaxTotal == 40                \* bound: quiz.totalMarks

SeqsUpTo(S, n) == UNION {[1..k -> S] : k \in 0..n}

IndexLists == SeqsUpTo(0..MaxIndex, MaxList)
Texts == SeqsUpTo({"a", "A", "b", " "}, MaxText)

SingleCorrectInputs ==
    {[kind |-> "question",
      question |-> [id |-> "q", type |-> "single-correct", correctAnswerIndex |-> c, marks |-> 2],
      studentAnswer |-> v] :
        c \in {Undefined, JsNull} \cup {Num(i) : i \in 0..MaxIndex},
        v \in {Undefined} \cup {Num(i) : i \in -1..MaxIndex + 1}}

MultipleCorrectInputs ==
    {[kind |-> "question",
      question |-> [id |-> "q", type |-> "multiple-correct", correctAnswerIndices |-> c, marks |-> 2],
      studentAnswer |-> v] :
        c \in {Undefined} \cup {Arr(l) : l \in IndexLists},
        v \in {Undefined, Num(0)} \cup {Arr(l) : l \in IndexLists}}

FillInTheBlankInputs ==
    {[kind |-> "question",
      question |-> [id |-> "q", type |-> "fill-in-the-blank", correctAnswerText |-> c, marks |-> 2],
      studentAnswer |-> v] :
        c \in {Undefined, JsNull} \cup {Str(t) : t \in Texts},
        v \in {Undefined, Num(0)} \cup {Str(t) : t \in Texts}}

ScoreInputs ==
    {i \in {[kind |-> "score", achievedMarks |-> a, totalMarks |-> t] :
                t \in 0..MaxTotal, a \in 0..MaxTotal} :
        i.achievedMarks <= i.totalMarks \/ i.totalMarks = 0}

\* The quiz of the session, with any answers.
QuizInputs ==
    {[kind |-> "quiz", answers |-> a] : a \in [QIds -> {NoAnswer} \cup 0..MaxIndex]}

GradeInputs ==
    SingleCorrectInputs \cup MultipleCorrectInputs \cup FillInTheBlankInputs
        \cup ScoreInputs \cup QuizInputs

InitGrade ==
    /\ hook = InitialHook
    /\ ls = [progress |-> Null, backup |-> Null]
    /\ rt = InitialRuntime
    /\ doc = FALSE
    /\ remote = Null
    /\ other = "idle"
    /\ loads = 1
    /\ threshold = DefaultThreshold
    /\ backend = InitialBackend
    /\ grading \in GradeInputs

\* One pass of the grading loop, over one question.
GradeQuestion ==
    /\ grading.kind = "question" /\ "isCorrect" \notin DOMAIN grading
    /\ grading' = Merge(grading,
            [isCorrect |-> isCorrect(grading.question, grading.studentAnswer),
             achievedMarks |-> achievedMarks(<<grading.question>>,
                                 [id \in {grading.question.id} |-> grading.studentAnswer])])
    /\ UNCHANGED <<hook, ls, rt, doc, remote, other, loads, threshold, backend>>

\* The score from the marks achieved and quiz.totalMarks.
GradeScore ==
    /\ grading.kind = "score" /\ "score" \notin DOMAIN grading
    /\ grading' = Merge(grading,
            [score |-> score(grading.achievedMarks, grading.totalMarks)])
    /\ UNCHANGED <<hook, ls, rt, doc, remote, other, loads, threshold, backend>>

\* The grading loop and the score for the session's quiz.
GradeQuiz ==
    /\ grading.kind = "quiz" /\ "score" \notin DOMAIN grading
    /\ LET questions == [i \in 1..Len(QuizQuestionIds) |-> Question(QuizQuestionIds[i])]
           marks == achievedMarks(questions, jsAnswers(grading.answers))
       IN grading' = Merge(grading,
            [achievedMarks |-> marks, score |-> score(marks, TotalMarks)])
    /\ UNCHANGED <<hook, ls, rt, doc, remote, other, loads, threshold, backend>>

NextGrade ==
    \/ GradeQuestion
    \/ GradeScore
    \/ GradeQuiz

SpecGrade == InitGrade /\ [][NextGrade]_vars

\* ------------------------------------------------- answer selection
\* handleAnswerSelect on its own: a multiple-correct question q1 whose
\* options are 0..MaxOptionIndex and a single-correct question q2, with any
\* sequence of selections. `toggled` is the set of options of q1 selected
\* an odd number of times.
MaxOptionIndex == 10

OptionIndices == 0..MaxOptionIndex

SelectTypes == [q1 |-> "multiple-correct", q2 |-> "single-correct"]

InitSelect ==
    /\ hook = InitialHook
    /\ ls = [progress |-> Null, backup |-> Null]
    /\ rt = InitialRuntime
    /\ doc = FALSE
    /\ remote = Null
    /\ other = "idle"
    /\ loads = 1
    /\ threshold = DefaultThreshold
    /\ backend = InitialBackend
    /\ grading = [kind    |-> "select",
                  answers |-> [q1 |-> Undefined, q2 |-> Undefined],
                  toggled |-> {},
                  last    |-> "none"]

\* The student clicks an option of the multiple-correct question.
SelectMultiple ==
    /\ \E value \in OptionIndices :
        grading' = [grading EXCEPT
            !.answers = handleAnswerSelect(@, "q1", value, SelectTypes.q1),
            !.toggled = IF value \in @ THEN @ \ {value} ELSE @ \cup {value},
            !.last = "q1"]
    /\ UNCHANGED <<hook, ls, rt, doc, remote, other, loads, threshold, backend>>

\* The student clicks an option of the single-correct question.
SelectSingle ==
    /\ \E value \in OptionIndices :
        grading' = [grading EXCEPT
            !.answers = handleAnswerSelect(@, "q2", Num(value), SelectTypes.q2),
            !.last = "q2"]
    /\ UNCHANGED <<hook, ls, rt, doc, remote, other, loads, threshold, backend>>

NextSelect ==
    \/ SelectMultiple
    \/ SelectSingle

SpecSelect == InitSelect /\ [][NextSelect]_vars

\* =================================================================== claims

\* C1. Submit is idempotent under racing triggers: whatever the timer, the
\* tab-switch rule, the full-screen rule and the manual click do, and in
\* whatever order, a page sends at most one request carrying
\* submitted = true, exactly one once a trigger has passed the guard, and
\* calls onFinish at most once, exactly once when that submission has
\* settled and its timeout has run; a manual invocation without an attempt
\* reference, or after the session is finished, changes nothing.
C1_SubmitIdempotent ==
    /\ [](/\ rt.submitRequests <= 1
          /\ rt.onFinishCalls <= 1
          /\ (rt.submitCause # "none" <=> rt.submitRequests = 1)
          /\ (rt.submitCause # "none" /\ rt.pendingSubmit = Null /\ ~rt.finishTimer
                => rt.onFinishCalls = 1))
    /\ [][(SubmitIntent /\ (hook.attemptRef = Null \/ hook.isFinishedRef))
            => UNCHANGED vars]_vars

\* A page whose submission went through every stage, started by the timer
\* with the student in the quiz view (where the click is available too).
C1_Witness ==
    /\ rt.submitCause = "timer"
    /\ rt.submitRequests = 1
    /\ rt.onFinishCalls = 1
    /\ hook.currentQuestionIndex = Len(hook.questions) - 1

\* C2. Once the backend's attempt has submitted = true, no request leaves it
\* with submitted = false.
C2_SubmittedIsFinal ==
    [][(remote # Null /\ remote.submitted) => (remote' # Null /\ remote'.submitted)]_vars

\* C3. Once submitQuiz's request has settled, either way, the progress slot
\* of (student, quiz) is empty.
C3_ProgressCleared ==
    (rt.submitCause # "none" /\ rt.pendingSubmit = Null) => ls.progress = Null

\* C4. After initializeQuiz has failed the session is not ready, its clock
\* and its counters are where they started, and neither questions nor an
\* attempt reference are set.
C4_FailedInitHalts ==
    rt.init = "failed" =>
        /\ ~hook.isReadyToStart
        /\ hook.timeLeft = DurationSeconds
        /\ hook.tabSwitches = 0
        /\ hook.fullScreenExits = 0
        /\ hook.questions = <<>>
        /\ hook.attemptRef = Null

\* C5. From the end of loading until full screen is first entered the clock
\* and the counters do not move and no integrity rule invokes submitQuiz.
C5_NothingBeforeReady ==
    /\ []((~hook.isLoading /\ ~hook.isReadyToStart)
            => rt.submitCause \notin {"tabSwitch", "fullScreenExit"})
    /\ [][(~hook.isLoading /\ ~hook.isReadyToStart /\ ~hook'.isReadyToStart
           /\ loads' = loads)
            => /\ hook'.timeLeft = hook.timeLeft
               /\ hook'.tabSwitches = hook.tabSwitches
               /\ hook'.fullScreenExits = hook.fullScreenExits]_vars

C7_ThresholdBoundary ==
    /\ (~hook.isLoading /\ hook.isReadyToStart /\ hook.attemptRef # Null
        /\ hook.tabSwitches >= threshold) => hook.isFinished
    /\ rt.submitCause = "tabSwitch" => hook.tabSwitches >= threshold
    /\ (hook.isReadyToStart /\ rt.submitCause = "tabSwitch")
            => hook.tabSwitches = threshold

\* The third hide of a ready session with threshold 3 has submitted it.
C7_Witness ==
    /\ threshold = DefaultThreshold
    /\ hook.isReadyToStart
    /\ hook.tabSwitches = threshold
    /\ rt.submitCause = "tabSwitch"

\* C8. In a ready session the first full-screen exit (counted over the
\* attempt) shows the warning and stops the clock without a submission, and
\* with two or more exits the session is finished.
C8_ExitBoundary ==
    /\ (rt.mounted /\ hook.isReadyToStart /\ hook.fullScreenExits = 1 /\ ~doc
        /\ ~hook.isFinished) => (hook.isWarningVisible /\ ~ticking(hook))
    /\ rt.submitCause = "fullScreenExit" => hook.fullScreenExits >= 2
    /\ (hook.isReadyToStart /\ hook.fullScreenExits >= 2) => hook.isFinished

\* C8 where initializeQuiz has not failed: there the boundary is as claimed.
C8_ExitBoundaryAfterInit ==
    rt.init # "failed" =>
        /\ (rt.mounted /\ hook.isReadyToStart /\ hook.fullScreenExits = 1 /\ ~doc
            /\ ~hook.isFinished) => (hook.isWarningVisible /\ ~ticking(hook))
        /\ rt.submitCause = "fullScreenExit" => hook.fullScreenExits >= 2
        /\ (hook.isReadyToStart /\ hook.fullScreenExits >= 2) => hook.isFinished

\* C9. The final record has submitted = true, the session's answers and the
\* session's tab-switch count; with threshold 3 the record of a submission
\* by the tab-switch rule in a ready session has tabSwitches = 3.
C9_FinalRecord ==
    rt.pendingSubmit # Null =>
        /\ rt.pendingSubmit.submitted
        /\ rt.pendingSubmit.answers = hook.answers
        /\ rt.pendingSubmit.tabSwitches = hook.tabSwitches
        /\ (threshold = DefaultThreshold /\ rt.submitCause = "tabSwitch"
            /\ hook.isReadyToStart) => rt.pendingSubmit.tabSwitches = DefaultThreshold

\* Three hides with threshold 3 and an answer given: the record in flight.
C9_Witness ==
    /\ rt.pendingSubmit # Null
    /\ threshold = DefaultThreshold
    /\ rt.submitCause = "tabSwitch"
    /\ hook.isReadyToStart
    /\ rt.pendingSubmit.tabSwitches = DefaultThreshold
    /\ rt.pendingSubmit.answers # EmptyAnswers

\* C10. A load that finds a progress snapshot and no submitted attempt leaves
\* the session with the snapshot's question order, answers, remaining
\* seconds, counters and attempt reference, sends no create request and
\* leaves the backend's attempt as it was.
C10_ResumeFidelity ==
    [][(/\ rt.init = "lookup" /\ rt'.init = "done" /\ loads' = loads
        /\ ls.progress # Null
        /\ ~(remote # Null /\ remote.submitted))
        => /\ hook'.questions = ls.progress.questions
           /\ hook'.answers = ls.progress.answers
           /\ hook'.answersRef = ls.progress.answers
           /\ hook'.timeLeft = ls.progress.timeLeft
           /\ hook'.tabSwitches = ls.progress.tabSwitches
           /\ hook'.fullScreenExits = ls.progress.fullScreenExits
           /\ hook'.attemptRef = ls.progress.attempt
           /\ rt'.createRequests = 0
           /\ remote' = remote]_vars

\* A resumed session: second load, nothing created, the first load's work
\* in place.
C10_Witness ==
    /\ loads = 2 /\ rt.init = "done" /\ rt.createRequests = 0
    /\ ~hook.isLoading /\ ~hook.isFinished
    /\ hook.tabSwitches = 1
    /\ hook.fullScreenExits = 1
    /\ hook.timeLeft = 1
    /\ hook.answers # EmptyAnswers
    /\ ls.progress # Null /\ hook.attemptRef = ls.progress.attempt

\* C11. When the lookup of initializeQuiz finds a submitted attempt, the
\* session is Finished at once and onFinish is called once; from then on,
\* within that page load, the hook, localStorage and the remote attempt stay
\* as they are and no request is sent: no question fetch, no create, no
\* final request, no tick, no counter change, no progress write.
C11_SubmittedShortCircuit ==
    /\ [][(rt.init = "lookup" /\ rt'.init \notin {"lookup", "failed"} /\ loads' = loads
            /\ remote # Null /\ remote.submitted)
          => (/\ rt'.init = "finished"
              /\ hook'.isFinished /\ hook'.isFinishedRef
              /\ rt'.onFinishCalls = 1
              /\ hook'.questions = <<>>
              /\ ls' = ls /\ remote' = remote)]_vars
    /\ [][(rt.init = "finished" /\ loads' = loads)
          => (/\ hook' = hook /\ ls' = ls /\ remote' = remote
              /\ rt'.init = "finished"
              /\ rt'.onFinishCalls = 1
              /\ rt'.createRequests = 0 /\ rt'.submitRequests = 0
              /\ rt'.saveTimers = <<>> /\ rt'.pendingSubmit = Null)]_vars

\* A later load finds the attempt submitted while the progress slot is still
\* filled, and does not resume from it.
C11_Witness ==
    /\ rt.init = "finished" /\ loads = 2
    /\ hook.isFinished /\ rt.onFinishCalls = 1 /\ ~rt.mounted
    /\ ls.progress # Null /\ hook.questions = <<>> /\ hook.timeLeft = DurationSeconds

\* C12. When the final request of submitQuiz fails, the final record, with
\* submitted = true, is written to the backup slot and the progress slot is
\* left as it was; the session is Finished, the request is not sent again
\* and the remote attempt is not written again in that page load; onFinish
\* is called once, by the timeout set after the catch block, and never twice.
C12_FailedSubmitBackup ==
    /\ [](rt.submitResult = "rejected" =>
            /\ ls.backup # Null /\ ls.backup.submitted
            /\ hook.isFinished /\ hook.isFinishedRef
            /\ rt.pendingSubmit = Null /\ rt.submitRequests = 1
            /\ rt.saveTimers = <<>>
            /\ (rt.finishTimer => rt.onFinishCalls = 0)
            /\ (~rt.finishTimer => rt.onFinishCalls = 1))
    /\ [][(rt.submitResult = "none" /\ rt'.submitResult = "rejected")
          => (/\ ls'.backup = rt.pendingSubmit
              /\ ls'.progress = ls.progress
              /\ rt'.finishTimer)]_vars
    /\ [][(rt.submitResult = "rejected" /\ loads' = loads)
          => (remote' = remote /\ ls' = ls /\ rt'.submitResult = "rejected")]_vars

\* A rejected final request, the backup slot holding the answered record
\* next to a filled progress slot, and onFinish called.
C12_Witness ==
    /\ rt.submitResult = "rejected" /\ rt.onFinishCalls = 1 /\ ~rt.mounted
    /\ ls.backup # Null /\ ls.backup.submitted /\ ls.backup.answers # EmptyAnswers
    /\ ls.progress # Null /\ ls.progress # ls.backup
    /\ (remote = Null \/ ~remote.submitted)

\* C13. Whatever way the reads and writes of concurrent POST /attempts
\* requests for one (student, quiz) pair interleave, the collection holds at
\* most one attempt of the pair in every state.
C13_OneAttemptPerPair == Cardinality(backend.attempts) <= 1

\* Two creates both found no attempt; the first inserted one, the second was
\* rejected.
C13_Witness ==
    /\ Cardinality(backend.attempts) = 1
    /\ \E c1, c2 \in Callers :
        /\ c1 # c2
        /\ backend.replies[c1] # Null /\ backend.replies[c1].status = 201
        /\ backend.replies[c2] # Null /\ backend.replies[c2].status = 500

\* C14. Every request the backend serves, POST or PUT, whatever startTime
\* its body carries, leaves each stored attempt in the collection with the
\* startTime it was created with.
C14_StartTimeFixed ==
    [][\A d \in backend.attempts :
          \E d2 \in backend'.attempts : d2.id = d.id /\ d2.startTime = d.startTime]_vars

\* An attempt created with startTime 5 after a request carrying startTime 6
\* was applied to it.
C14_Witness ==
    \E d \in backend.attempts, c \in Callers :
        /\ d.startTime = 5
        /\ backend.replies[c] # Null
        /\ backend.replies[c].status = 200
        /\ backend.replies[c].startTime = 6

\* The set of the elements of a list.
Elements(list) == {list[i] : i \in 1..Len(list)}

\* C15. A multiple-correct question with a stored list and a list of correct
\* indices is graded correct exactly when the two lists have the same set of
\* elements, whatever their order and their duplicates; in particular an
\* empty stored list against a non-empty correct list is incorrect.
C15_MultipleCorrectIsSetEquality ==
    (/\ grading.kind = "question" /\ "isCorrect" \in DOMAIN grading
     /\ grading.question.type = "multiple-correct"
     /\ grading.studentAnswer.kind = "array"
     /\ grading.question.correctAnswerIndices.kind = "array")
    => (grading.isCorrect
            <=> Elements(grading.studentAnswer.items)
                  = Elements(grading.question.correctAnswerIndices.items))

C17_ScoreIsRoundedPercentage ==
    /\ (grading.kind = "score" /\ "score" \in DOMAIN grading)
        => IF grading.totalMarks > 0
           THEN (200 * grading.achievedMarks + grading.totalMarks)
                    - 2 * grading.totalMarks * grading.score
                  \in 0..(2 * grading.totalMarks - 1)
           ELSE grading.score = 0
    /\ (grading.kind = "quiz" /\ "score" \in DOMAIN grading)
        => /\ (grading.answers["q1"] = 0 /\ grading.answers["q2"] = 0)
                => (grading.achievedMarks = 5 /\ grading.score = 100)
           /\ (grading.answers["q1"] = 0 /\ grading.answers["q2"] # 0)
                => (grading.achievedMarks = 2 /\ grading.score = 40)

\* A text without the white space around it.
Core(text) ==
    LET nonSpace == {i \in 1..Len(text) : text[i] # " "}
    IN IF nonSpace = {} THEN <<>>
       ELSE SubSeq(text,
                   CHOOSE i \in nonSpace : \A j \in nonSpace : i <= j,
                   CHOOSE i \in nonSpace : \A j \in nonSpace : i >= j)

\* Two characters that are the same up to case.
SameLetter(x, y) == x = y \/ {x, y} = {"a", "A"} \/ {x, y} = {"b", "B"}

\* C18. A fill-in-the-blank question is graded correct exactly when the
\* stored answer is a text, the question has an expected text, and the two,
\* without the white space around them, are equal up to case; a missing
\* stored answer is incorrect.
C18_FillInTheBlankNormalized ==
    (/\ grading.kind = "question" /\ "isCorrect" \in DOMAIN grading
     /\ grading.question.type = "fill-in-the-blank")
    => (grading.isCorrect
          <=> /\ grading.studentAnswer.kind = "string"
              /\ grading.question.correctAnswerText.kind = "string"
              /\ LET stored == Core(grading.studentAnswer.text)
                     expected == Core(grading.question.correctAnswerText.text)
                 IN /\ Len(stored) = Len(expected)
                    /\ \A i \in 1..Len(stored) : SameLetter(stored[i], expected[i]))

\* " A" stored against the expected "a " is graded correct.
C18_Witness ==
    /\ grading.kind = "question" /\ "isCorrect" \in DOMAIN grading
    /\ grading.question.type = "fill-in-the-blank"
    /\ grading.studentAnswer = Str(<<" ", "A">>)
    /\ grading.question.correctAnswerText = Str(<<"a", " ">>)
    /\ grading.isCorrect /\ grading.achievedMarks = grading.question.marks

\* C19. The questionIds of the remote attempt are a permutation of
\* quiz.questionIds, they are the order of the questions the session
\* presents, and once the attempt exists no step changes them: no reload,
\* no resume, no later load.
C19_QuestionOrderFixed ==
    /\ [](remote # Null => remote.questionIds \in shuffleArray(QuizQuestionIds))
    /\ []((remote # Null /\ rt.mounted /\ ~hook.isLoading /\ hook.attemptRef # Null)
            => Ids(hook.questions) = remote.questionIds)
    /\ [][remote # Null
            => (remote' # Null /\ remote'.questionIds = remote.questionIds)]_vars

\* C20. Once the first full-screen exit has been answered by a re-entry, a
\* step that is no full-screen exit and does not finish the session (a tab
\* hide that leaves the count below the threshold, an answer, a tick) leaves
\* the warning hidden and the countdown running.
C20_WarningStaysHidden ==
    [][(/\ rt.mounted /\ hook.isReadyToStart /\ ~hook.isFinished
        /\ hook.attemptRef # Null
        /\ hook.fullScreenExits = 1 /\ doc /\ ~hook.isWarningVisible
        /\ doc' /\ loads' = loads /\ rt'.mounted
        /\ ~hook'.isFinished /\ hook'.tabSwitches < threshold)
       => (~hook'.isWarningVisible /\ ticking(hook'))]_vars

\* C21. While the countdown runs, a backup update request is sent within
\* every stretch of SaveDelaySeconds seconds of running: the countdown never
\* runs that long on end with no backup request.
C21_BackupWhileRunning == rt.runSeconds < SaveDelaySeconds

\* C22. In the remote store an attempt that is not submitted has no endTime:
\* endTime is written by the final submission only.
C22_UnsubmittedHasNoEndTime ==
    (remote # Null /\ ~remote.submitted) => remote.endTime = NoTime

\* C23. No request resets what an unsubmitted remote attempt has recorded:
\* in particular the create request of a start that finds no progress slot
\* but finds the unsubmitted attempt leaves the attempt's answers in place
\* (never an empty mapping instead of recorded answers) and does not lower
\* its tab-switch count.
C23_StartKeepsRemoteRecord ==
    [][(remote # Null /\ ~remote.submitted)
         => /\ remote' # Null
            /\ remote'.tabSwitches >= remote.tabSwitches
            /\ (remote.answers # EmptyAnswers => remote'.answers # EmptyAnswers)]_vars

\* C24. Once submitQuiz has marked the session Finished, no step of that
\* session changes the tab-switch counter, the full-screen-exit counter or
\* the remaining seconds.
C24_FinishedFreezesCounters ==
    [][(hook.isFinished /\ rt.submitCause # "none" /\ loads' = loads)
         => /\ hook'.tabSwitches = hook.tabSwitches
            /\ hook'.fullScreenExits = hook.fullScreenExits
            /\ hook'.timeLeft = hook.timeLeft]_vars

C26_CountdownEndsInSubmission ==
    /\ [](( /\ rt.mounted /\ ~hook.isLoading
            /\ hook.attemptRef # Null /\ hook.timeLeft = 0)
          => (hook.isFinished /\ rt.submitCause # "none"))
    /\ (rt.mounted /\ ticking(hook) /\ hook.attemptRef # Null)
          ~> \/ hook.isWarningVisible
             \/ hook.isFinished /\ rt.submitCause # "timer"
             \/ hook.isFinished /\ hook.timeLeft = 0
    /\ (hook.isFinished /\ rt.submitCause # "none") ~> (rt.onFinishCalls >= 1)

\* The countdown of a session with an attempt reference has run out, its
\* request has settled and the completion callback has been called.
C26_Witness ==
    /\ hook.attemptRef # Null
    /\ hook.timeLeft = 0
    /\ hook.isFinished
    /\ rt.submitCause = "timer"
    /\ rt.onFinishCalls = 1

C28_TrailingEdgeDebounce ==
    /\ [](Len(rt.saveTimers) <= 1)
    /\ [](hook.isFinished => rt.saveTimers = <<>>)
    /\ [][( /\ loads' = loads /\ rt'.mounted
            /\ ~hook'.isLoading /\ ~hook'.isFinished
            /\ Len(hook'.questions) > 0 /\ hook'.attemptRef # Null
            /\ \/ hook'.answers # hook.answers
               \/ hook'.timeLeft # hook.timeLeft
               \/ hook'.tabSwitches # hook.tabSwitches
               \/ hook'.fullScreenExits # hook.fullScreenExits )
          => rt'.saveTimers = <<[tabSwitches |-> hook'.tabSwitches, age |-> 0]>>]_vars
    /\ [][BackupFire
          => \A i \in 1..Len(rt.saveTimers) :
                rt.saveTimers[i].age = SaveDelaySeconds]_vars

\* A backup has been sent from under the warning overlay, after a tab hide
\* had set the timeout anew: the remote attempt has the new count.
C28_Witness ==
    /\ rt.mounted /\ hook.isWarningVisible /\ ~hook.isFinished
    /\ hook.tabSwitches > 0
    /\ rt.saveTimers = <<>>
    /\ remote # Null /\ ~remote.submitted
    /\ remote.tabSwitches = hook.tabSwitches
    /\ remote.endTime # NoTime

\* The elements of a set of numbers in ascending order.
RECURSIVE Ascending(_)
Ascending(set) ==
    IF set = {} THEN <<>>
    ELSE LET least == CHOOSE n \in set : \A m \in set : n <= m
         IN <<least>> \o Ascending(set \ {least})

\* C29. After any sequence of selections the stored answer of the
\* multiple-correct question is the list, in ascending numeric order and
\* with no index twice, of the options selected an odd number of times, and
\* a selection for one question leaves the stored answer of the other as it
\* was.
C29_StoredAnswerIsSortedToggleSet ==
    /\ [](grading.kind = "select" =>
            \/ grading.answers.q1 = Undefined /\ grading.toggled = {}
            \/ grading.answers.q1 = Arr(Ascending(grading.toggled)))
    /\ [][(grading.kind = "select" /\ grading'.last = "q1")
            => grading'.answers.q2 = grading.answers.q2]_vars
    /\ [][(grading.kind = "select" /\ grading'.last = "q2")
            => grading'.answers.q1 = grading.answers.q1]_vars

\* What a navigation step leaves alone.
NavigationFrame ==
    /\ hook'.answers = hook.answers
    /\ hook'.timeLeft = hook.timeLeft
    /\ hook'.tabSwitches = hook.tabSwitches
    /\ hook'.fullScreenExits = hook.fullScreenExits

\* C30. With n >= 1 questions the current question index is within 0..n-1;
\* next moves it up by one below n-1 and leaves it at n-1, previous moves it
\* down by one above 0 and leaves it at 0, and both leave the answers,
\* remaining seconds and the two counters as they were.
C30_NavigationStaysInRange ==
    /\ [](Len(hook.questions) >= 1
            => hook.currentQuestionIndex \in 0..(Len(hook.questions) - 1))
    /\ [][GoToNextQuestion
            => /\ hook'.currentQuestionIndex =
                    IF hook.currentQuestionIndex = Len(hook.questions) - 1
                    THEN hook.currentQuestionIndex
                    ELSE hook.currentQuestionIndex + 1
               /\ NavigationFrame]_vars
    /\ [][GoToPreviousQuestion
            => /\ hook'.currentQuestionIndex =
                    IF hook.currentQuestionIndex = 0
                    THEN hook.currentQuestionIndex
                    ELSE hook.currentQuestionIndex - 1
               /\ NavigationFrame]_vars

\* The student has gone to the last question and answered it, with a tick
\* behind.
C30_Witness ==
    /\ rt.mounted /\ ~hook.isFinished
    /\ Len(hook.questions) >= 2
    /\ hook.currentQuestionIndex = Len(hook.questions) - 1
    /\ hook.answers[hook.questions[Len(hook.questions)].id] # NoAnswer
    /\ hook.timeLeft < DurationSeconds
====
